---- MODULE Spec2Model ----
(***************************************************************************)
(* Peak and baseline feature extraction of a voltammetry signal            *)
(* (src/physics.py, src/baseline.py).                                      *)
(*                                                                         *)
(* A signal is a pair of index-aligned sequences E (potential) and I       *)
(* (current).  Every function is pure; the state machine below is a caller *)
(* that holds one signal, picks a window and calls the functions on it.    *)
(*                                                                         *)
(* Numbers.  Currents and potentials are integers.  A float result is kept *)
(* exactly, as the integers of a fraction: a mean is <<sum, n>>, an area   *)
(* <<twice the area, 2>>, a squared RMS <<num, den>>.  The float specials  *)
(* (nan, inf, -inf) that numpy produces instead of raising are the field   *)
(* "special".  Python indices are 0-based: Item(s, i) is s[i].             *)
(***************************************************************************)
EXTENDS Integers, Sequences, FiniteSets

\* ---------------------------------------------------------------- bounds
MaxLen == 4
HeadLen == 2
MaxBack == 2

\* ------------------------------------------------------ program constants
DefaultStart == 18
DefaultEnd == 70
AlphaNum == 1
AlphaDen == 10

Vals == {0 - 2, 0 - 1, 0, 1, 2}
HalfMaximum == <<1, 2>>
FullMaximum == <<1, 1>>
Ratios == {HalfMaximum, FullMaximum}
\* Window bounds a caller passes: up to MaxBack before index 0 (Python's
\* negative indices) and up to one past the longest short signal.
IdxRange == (0 - MaxBack)..(MaxLen + 1)

\* Short signals: every current sequence of 1..MaxLen samples.
ShortSignals == UNION {[1..n -> Vals] : n \in 1..MaxLen}
\* Long signals reach into the default window [18, 70): HeadLen free samples
\* followed by a constant level up to index DefaultStart.
LongSignals ==
    {head \o [i \in 1..(DefaultStart + 1 - HeadLen) |-> c] :
        head \in [1..HeadLen -> Vals], c \in Vals}
Signals == ShortSignals \cup LongSignals
\* The potential is a linear sweep: n samples upwards from -3 in steps of 2.
Sweep(n) == [i \in 1..n |-> 2 * i - 5]

\* ------------------------------------------------- Python / numpy semantics
\* A slice bound: negative bounds count from the end, and every bound is
\* clamped into [0, n] without an error.
Norm(i, n) ==
    IF i < 0 THEN (IF i + n < 0 THEN 0 ELSE i + n)
    ELSE (IF i > n THEN n ELSE i)

\* s[a:b]
Slice(s, a, b) ==
    LET lo == Norm(a, Len(s))
        hi == Norm(b, Len(s))
    IN  IF hi <= lo THEN << >> ELSE SubSeq(s, lo + 1, hi)

\* s[:b] and s[a:]
SliceTo(s, b) == Slice(s, 0, b)
SliceFrom(s, a) == Slice(s, a, Len(s))

\* s[i] is defined for -n <= i < n and raises IndexError otherwise.
InBounds(i, n) == (0 - n) <= i /\ i < n
Item(s, i) == IF i < 0 THEN s[i + Len(s) + 1] ELSE s[i + 1]

\* np.max of a non-empty sequence: a left-to-right scan.
RECURSIVE MaxScan(_, _, _)
MaxScan(s, k, best) ==
    IF k > Len(s) THEN best
    ELSE MaxScan(s, k + 1, IF s[k] > best THEN s[k] ELSE best)
NpMax(s) == MaxScan(s, 2, s[1])

\* np.argmax: the 0-based position of the first occurrence of the maximum.
RECURSIVE ArgmaxScan(_, _, _)
ArgmaxScan(s, k, at) ==
    IF k > Len(s) THEN at
    ELSE ArgmaxScan(s, k + 1, IF s[k] > s[at] THEN k ELSE at)
NpArgmax(s) == ArgmaxScan(s, 2, 1) - 1

\* np.where(s >= num/den)[0]: the 0-based positions, ascending.
WhereGE(s, num, den) ==
    SelectSeq([i \in 1..Len(s) |-> i - 1], LAMBDA k : s[k + 1] * den >= num)

RECURSIVE Sum(_)
Sum(s) == IF s = << >> THEN 0 ELSE Head(s) + Sum(Tail(s))
Squares(s) == [i \in 1..Len(s) |-> s[i] * s[i]]
Products(s, t) == [i \in 1..Len(s) |-> s[i] * t[i]]

\* ------------------------------------------------------------ outcomes
\* What a call gives back: a returned value (its Python shape, its numbers,
\* a float special if any, the diagnostic printed before returning) or an
\* exception (its class and the source line that raises it).
Ret(shape, val, special, diag) ==
    [kind |-> "value", shape |-> shape, val |-> val,
     special |-> special, diag |-> diag, line |-> 0]
Raise(exc, line) ==
    [kind |-> exc, shape |-> "none", val |-> << >>,
     special |-> "none", diag |-> "none", line |-> line]
NoResult ==
    [kind |-> "none", shape |-> "none", val |-> << >>,
     special |-> "none", diag |-> "none", line |-> 0]

\* ------------------------------------------------------------ physics.py
\* Mutant of get_peak_values: the local argmax is returned without start_idx.
get_peak_values_local(e, i, start, end) ==
    LET window == Slice(i, start, end)
    IN  IF window = << >> THEN Raise("ValueError", 23)
        ELSE LET peak_current == NpMax(window)
                 peak_idx == NpArgmax(window)
             IN  IF ~InBounds(peak_idx, Len(e)) THEN Raise("IndexError", 25)
                 ELSE Ret("tuple3",
                          <<peak_current, Item(e, peak_idx), peak_idx>>,
                          "none", "none")

get_peak_values(e, i, start, end) ==
    LET window == Slice(i, start, end)
    IN  IF window = << >> THEN Raise("ValueError", 23)
        ELSE LET peak_current == NpMax(window)
                 peak_idx == NpArgmax(window) + start
             IN  IF ~InBounds(peak_idx, Len(e)) THEN Raise("IndexError", 25)
                 ELSE Ret("tuple3",
                          <<peak_current, Item(e, peak_idx), peak_idx>>,
                          "none", "none")

\* The locals of a slope call when it ends, each <<v>> once assigned and
\* << >> before: the peak index, the threshold hits of np.where, the
\* threshold index and the fitted samples.
NoFrame ==
    [peak_idx |-> << >>, hits |-> << >>, idx_threshold |-> << >>,
     E_fit |-> << >>, I_fit |-> << >>]

\* np.polyfit(x, y, deg=1) on two or more points with distinct x: the
\* least-squares line, coefficients [slope, intercept] over one denominator.
NpPolyfit(x, y) ==
    LET n == Len(x)
        den == n * Sum(Squares(x)) - Sum(x) * Sum(x)
    IN  <<n * Sum(Products(x, y)) - Sum(x) * Sum(y),
          Sum(y) * Sum(Squares(x)) - Sum(x) * Sum(Products(x, y)),
          den>>

\* np.trapz(y, x), doubled: the sum of (x[k+1] - x[k]) * (y[k] + y[k+1]).
RECURSIVE TrapzTwice(_, _, _)
TrapzTwice(y, x, k) ==
    IF k >= Len(y) THEN 0
    ELSE (x[k + 1] - x[k]) * (y[k] + y[k + 1]) + TrapzTwice(y, x, k + 1)

\* Mutant of get_peak_FWHM: the degenerate test is len(...) < 1.
get_peak_FWHM_one(e, i, start, end, ratio) ==
    LET window == Slice(i, start, end)
    IN  IF window = << >> THEN Raise("ValueError", 44)
        ELSE LET peak_current == NpMax(window)
                 indexes_above_threshold ==
                     WhereGE(i, peak_current * ratio[1], ratio[2])
             IN  IF Len(indexes_above_threshold) < 1
                 THEN Ret("float", <<0>>, "none", "fwhm_warning")
                 ELSE LET left_idx == indexes_above_threshold[1]
                          right_idx ==
                              indexes_above_threshold[
                                  Len(indexes_above_threshold)] + 1
                      IN  IF ~InBounds(right_idx, Len(e))
                          THEN Raise("IndexError", 54)
                          ELSE Ret("float",
                                   <<Item(e, right_idx) - Item(e, left_idx)>>,
                                   "none", "none")

get_peak_FWHM(e, i, start, end, ratio) ==
    LET window == Slice(i, start, end)
    IN  IF window = << >> THEN Raise("ValueError", 44)
        ELSE LET peak_current == NpMax(window)
                 indexes_above_threshold ==
                     WhereGE(i, peak_current * ratio[1], ratio[2])
             IN  IF Len(indexes_above_threshold) < 2
                 THEN Ret("float", <<0>>, "none", "fwhm_warning")
                 ELSE LET left_idx == indexes_above_threshold[1]
                          right_idx ==
                              indexes_above_threshold[
                                  Len(indexes_above_threshold)] + 1
                      IN  IF ~InBounds(right_idx, Len(e))
                          THEN Raise("IndexError", 54)
                          ELSE Ret("float",
                                   <<Item(e, right_idx) - Item(e, left_idx)>>,
                                   "none", "none")

get_peak_area(e, i, start, end) ==
    Ret("float",
        <<TrapzTwice(Slice(i, start, end), Slice(e, start, end), 1), 2>>,
        "none", "none")

\* Mutant of left_slope_frame: idx_threshold is the local hit, without
\* start_idx.
left_slope_frame_local(e, i, start, end) ==
    LET peak == get_peak_values(e, i, start, end)
    IN  IF peak.kind # "value" THEN NoFrame
        ELSE LET Ip == peak.val[1]
                 peak_idx == peak.val[3]
                 hits == WhereGE(Slice(i, start, peak_idx),
                                 AlphaNum * Ip, AlphaDen)
             IN  IF hits = << >>
                 THEN [NoFrame EXCEPT !.peak_idx = <<peak_idx>>]
                 ELSE LET idx_threshold == hits[1]
                      IN  [peak_idx |-> <<peak_idx>>,
                           hits |-> hits,
                           idx_threshold |-> <<idx_threshold>>,
                           E_fit |-> Slice(e, idx_threshold, peak_idx),
                           I_fit |-> Slice(i, idx_threshold, peak_idx)]

\* The locals of get_left_slope up to the length test of line 117.
left_slope_frame(e, i, start, end) ==
    LET peak == get_peak_values(e, i, start, end)
    IN  IF peak.kind # "value" THEN NoFrame
        ELSE LET Ip == peak.val[1]
                 peak_idx == peak.val[3]
                 hits == WhereGE(Slice(i, start, peak_idx),
                                 AlphaNum * Ip, AlphaDen)
             IN  IF hits = << >>
                 THEN [NoFrame EXCEPT !.peak_idx = <<peak_idx>>]
                 ELSE LET idx_threshold == start + hits[1]
                      IN  [peak_idx |-> <<peak_idx>>,
                           hits |-> hits,
                           idx_threshold |-> <<idx_threshold>>,
                           E_fit |-> Slice(e, idx_threshold, peak_idx),
                           I_fit |-> Slice(i, idx_threshold, peak_idx)]

get_left_slope(e, i, start, end) ==
    LET peak == get_peak_values(e, i, start, end)
        f == left_slope_frame(e, i, start, end)
    IN  IF peak.kind # "value" THEN [peak EXCEPT !.line = 107]
        ELSE IF f.hits = << >> THEN Raise("IndexError", 111)
        ELSE IF Len(f.I_fit) < 2 \/ Len(f.E_fit) < 2
        THEN Ret("tuple2", <<0, 0>>, "none", "left_slope_warning")
        ELSE Ret("ndarray", NpPolyfit(f.E_fit, f.I_fit), "none", "none")

\* Mutant of right_slope_frame: the first hit of the search is taken, not
\* the last.
right_slope_frame_first(e, i, start, end) ==
    LET peak == get_peak_values(e, i, start, end)
    IN  IF peak.kind # "value" THEN NoFrame
        ELSE LET Ip == peak.val[1]
                 peak_idx == peak.val[3]
                 hits == WhereGE(Slice(i, peak_idx, end),
                                 AlphaNum * Ip, AlphaDen)
             IN  IF hits = << >>
                 THEN [NoFrame EXCEPT !.peak_idx = <<peak_idx>>]
                 ELSE LET idx_threshold == peak_idx + hits[1]
                      IN  [peak_idx |-> <<peak_idx>>,
                           hits |-> hits,
                           idx_threshold |-> <<idx_threshold>>,
                           E_fit |-> Slice(e, peak_idx, idx_threshold),
                           I_fit |-> Slice(i, peak_idx, idx_threshold)]

\* The locals of get_right_slope up to the length test of line 167.
right_slope_frame(e, i, start, end) ==
    LET peak == get_peak_values(e, i, start, end)
    IN  IF peak.kind # "value" THEN NoFrame
        ELSE LET Ip == peak.val[1]
                 peak_idx == peak.val[3]
                 hits == WhereGE(Slice(i, peak_idx, end),
                                 AlphaNum * Ip, AlphaDen)
             IN  IF hits = << >>
                 THEN [NoFrame EXCEPT !.peak_idx = <<peak_idx>>]
                 ELSE LET idx_threshold == peak_idx + hits[Len(hits)]
                      IN  [peak_idx |-> <<peak_idx>>,
                           hits |-> hits,
                           idx_threshold |-> <<idx_threshold>>,
                           E_fit |-> Slice(e, peak_idx, idx_threshold),
                           I_fit |-> Slice(i, peak_idx, idx_threshold)]

get_right_slope(e, i, start, end) ==
    LET peak == get_peak_values(e, i, start, end)
        f == right_slope_frame(e, i, start, end)
    IN  IF peak.kind # "value" THEN [peak EXCEPT !.line = 157]
        ELSE IF f.hits = << >> THEN Raise("IndexError", 161)
        ELSE IF Len(f.I_fit) < 2 \/ Len(f.E_fit) < 2
        THEN Ret("tuple2", <<0, 0>>, "none", "right_slope_warning")
        ELSE Ret("ndarray", NpPolyfit(f.E_fit, f.I_fit), "none", "none")

\* ----------------------------------------------------------- baseline.py
\* np.concatenate((I[:start_idx], I[end_idx:]))
Ibaseline(i, start, end) == SliceTo(i, start) \o SliceFrom(i, end)

\* np.mean: <<sum, n>>; the mean of no sample is nan (a warning, no error).
get_baseline_mean_current(e, i, start, end) ==
    LET b == Ibaseline(i, start, end)
    IN  IF b = << >> THEN Ret("float", << >>, "nan", "none")
        ELSE Ret("float", <<Sum(b), Len(b)>>, "none", "none")

\* mean((b - mean(b))^2) as a fraction: (n * sum(b^2) - sum(b)^2) / n^2.
MeanSquareNoise(b) ==
    <<Len(b) * Sum(Squares(b)) - Sum(b) * Sum(b), Len(b) * Len(b)>>

\* The RMS is kept as its square.
get_baseline_RMS_noise(i, start, end) ==
    LET b == Ibaseline(i, start, end)
    IN  IF b = << >> THEN Ret("float", << >>, "nan", "none")
        ELSE Ret("float", MeanSquareNoise(b), "none", "none")

\* A float divided by a numpy float: x/0 is inf or -inf by the sign of x,
\* 0/0 and x/nan are nan; none of them raises.
get_SNR(e, i, start, end) ==
    LET peak == get_peak_values(e, i, DefaultStart, DefaultEnd)
        b == Ibaseline(i, start, end)
    IN  IF peak.kind # "value" THEN [peak EXCEPT !.line = 117]
        ELSE LET Ip == peak.val[1]
             IN  IF b = << >> THEN Ret("float", << >>, "nan", "none")
                 ELSE IF MeanSquareNoise(b)[1] = 0
                 THEN Ret("float", << >>,
                          IF Ip > 0 THEN "inf"
                          ELSE IF Ip < 0 THEN "-inf" ELSE "nan",
                          "none")
                 ELSE Ret("float", <<Ip>> \o MeanSquareNoise(b),
                          "none", "none")

\* ------------------------------------------------------------ the caller
VARIABLES E, I, start_idx, end_idx, threshold_ratio, op, result, frame

vars == <<E, I, start_idx, end_idx, threshold_ratio, op, result, frame>>

Init ==
    /\ I \in Signals
    /\ E = Sweep(Len(I))
    /\ start_idx = DefaultStart
    /\ end_idx = DefaultEnd
    /\ threshold_ratio = HalfMaximum
    /\ op = "none"
    /\ result = NoResult
    /\ frame = NoFrame

\* One call: the caller's arguments, the outcome and the callee's locals.
Call(name, s, e, ratio, r, f) ==
    /\ op' = name
    /\ start_idx' = s
    /\ end_idx' = e
    /\ threshold_ratio' = ratio
    /\ result' = r
    /\ frame' = f
    /\ UNCHANGED <<E, I>>

\* The caller picks the window of a fresh measurement.
Do_get_peak_values ==
    /\ op = "none"
    /\ \E s, e \in IdxRange :
           Call("get_peak_values", s, e, threshold_ratio,
                get_peak_values(E, I, s, e), NoFrame)

Do_get_peak_FWHM ==
    /\ op = "none"
    /\ \E s, e \in IdxRange, ratio \in Ratios :
           Call("get_peak_FWHM", s, e, ratio,
                get_peak_FWHM(E, I, s, e, ratio), NoFrame)

Do_get_peak_area ==
    /\ op = "none"
    /\ \E s, e \in IdxRange :
           Call("get_peak_area", s, e, threshold_ratio,
                get_peak_area(E, I, s, e), NoFrame)

Do_get_left_slope ==
    /\ op = "none"
    /\ \E s, e \in IdxRange :
           Call("get_left_slope", s, e, threshold_ratio,
                get_left_slope(E, I, s, e), left_slope_frame(E, I, s, e))

Do_get_right_slope ==
    /\ op = "none"
    /\ \E s, e \in IdxRange :
           Call("get_right_slope", s, e, threshold_ratio,
                get_right_slope(E, I, s, e), right_slope_frame(E, I, s, e))

Do_get_baseline_mean_current ==
    /\ op = "none"
    /\ \E s, e \in IdxRange :
           Call("get_baseline_mean_current", s, e, threshold_ratio,
                get_baseline_mean_current(E, I, s, e), NoFrame)

Do_get_baseline_RMS_noise ==
    /\ op = "none"
    /\ \E s, e \in IdxRange :
           Call("get_baseline_RMS_noise", s, e, threshold_ratio,
                get_baseline_RMS_noise(I, s, e), NoFrame)

Do_get_SNR ==
    /\ op = "none"
    /\ \E s, e \in IdxRange :
           Call("get_SNR", s, e, threshold_ratio,
                get_SNR(E, I, s, e), NoFrame)

\* The caller drops the outcome and starts a fresh measurement of the signal.
NewWindow ==
    /\ op # "none"
    /\ op' = "none"
    /\ result' = NoResult
    /\ frame' = NoFrame
    /\ start_idx' = DefaultStart
    /\ end_idx' = DefaultEnd
    /\ threshold_ratio' = HalfMaximum
    /\ UNCHANGED <<E, I>>

Next ==
    \/ Do_get_peak_values
    \/ Do_get_peak_FWHM
    \/ Do_get_peak_area
    \/ Do_get_left_slope
    \/ Do_get_right_slope
    \/ Do_get_baseline_mean_current
    \/ Do_get_baseline_RMS_noise
    \/ Do_get_SNR
    \/ NewWindow

Spec == Init /\ [][Next]_vars

\* A feature-assembly caller: after a width it asks for the slopes of the
\* same window of the same signal, and after a slope for the width.
Then_get_peak_FWHM ==
    /\ op \in {"get_left_slope", "get_right_slope"}
    /\ \E ratio \in Ratios :
           Call("get_peak_FWHM", start_idx, end_idx, ratio,
                get_peak_FWHM(E, I, start_idx, end_idx, ratio), NoFrame)

Then_get_left_slope ==
    /\ op = "get_peak_FWHM"
    /\ Call("get_left_slope", start_idx, end_idx, threshold_ratio,
            get_left_slope(E, I, start_idx, end_idx),
            left_slope_frame(E, I, start_idx, end_idx))

Then_get_right_slope ==
    /\ op = "get_peak_FWHM"
    /\ Call("get_right_slope", start_idx, end_idx, threshold_ratio,
            get_right_slope(E, I, start_idx, end_idx),
            right_slope_frame(E, I, start_idx, end_idx))

NextSession ==
    \/ Next
    \/ Then_get_peak_FWHM
    \/ Then_get_left_slope
    \/ Then_get_right_slope

SessionSpec == Init /\ [][NextSession]_vars

\* =================================================================== claims
\* The vocabulary of the claims, stated on index sets of the signal and not
\* through the scans above.
N == Len(I)
Cur(k) == I[k + 1]
Pot(k) == E[k + 1]
ValidWindow == 0 <= start_idx /\ start_idx < end_idx /\ end_idx <= N
WindowIdx == start_idx..(end_idx - 1)
WindowMax ==
    CHOOSE m \in {Cur(k) : k \in WindowIdx} : \A k \in WindowIdx : Cur(k) <= m
FirstMaxIdx ==
    CHOOSE k \in WindowIdx :
        Cur(k) = WindowMax /\ \A j \in start_idx..(k - 1) : Cur(j) < WindowMax
GlobalMax ==
    CHOOSE m \in {Cur(k) : k \in 0..(N - 1)} : \A k \in 0..(N - 1) : Cur(k) <= m
UniqueMaximum == Cardinality({k \in 0..(N - 1) : Cur(k) = GlobalMax}) = 1
BaselineIdx == (0..(start_idx - 1)) \cup (end_idx..(N - 1))
FlatBaseline ==
    BaselineIdx # {} /\ \A j, k \in BaselineIdx : Cur(j) = Cur(k)
RECURSIVE SumOver(_, _)
SumOver(f, S) ==
    IF S = {} THEN 0
    ELSE LET x == CHOOSE x \in S : TRUE IN f[x] + SumOver(f, S \ {x})
BaselineSum == SumOver([k \in BaselineIdx |-> Cur(k)], BaselineIdx)
BaselineSumSq == SumOver([k \in BaselineIdx |-> Cur(k) * Cur(k)], BaselineIdx)
BaselineRmsSquared ==
    <<Cardinality(BaselineIdx) * BaselineSumSq - BaselineSum * BaselineSum,
      Cardinality(BaselineIdx) * Cardinality(BaselineIdx)>>
\* Samples >= ratio * (window maximum), over the whole signal.
AboveThreshold ==
    {k \in 0..(N - 1) :
        Cur(k) * threshold_ratio[2] >= WindowMax * threshold_ratio[1]}
\* Samples of the left and right search ranges >= Ith = 0.1 * peak current.
LeftHits ==
    {k \in start_idx..(FirstMaxIdx - 1) : AlphaDen * Cur(k) >= AlphaNum * WindowMax}
RightHits ==
    {k \in FirstMaxIdx..(end_idx - 1) : AlphaDen * Cur(k) >= AlphaNum * WindowMax}
LeftThreshold == CHOOSE k \in LeftHits : \A j \in LeftHits : k <= j
RightThreshold == CHOOSE k \in RightHits : \A j \in RightHits : j <= k
Samples(s, lo, hi) == [k \in 1..(hi - lo) |-> s[lo + k]]
WindowedOps ==
    {"get_peak_values", "get_peak_area", "get_peak_FWHM",
     "get_baseline_mean_current", "get_baseline_RMS_noise", "get_SNR",
     "get_left_slope", "get_right_slope"}

\* C1: for every valid window get_peak_values returns the maximum of
\* I[start_idx:end_idx], the lowest global index of the window at which that
\* maximum occurs, and the potential at that index.
C1_PeakValues ==
    (op = "get_peak_values" /\ ValidWindow) =>
        /\ result.kind = "value"
        /\ result.val = <<WindowMax, Pot(FirstMaxIdx), FirstMaxIdx>>
        /\ FirstMaxIdx \in WindowIdx

\* C1 witness: a window that starts after index 0 and holds its maximum
\* twice, the first time after the window's first sample.
C1_Witness ==
    /\ op = "get_peak_values"
    /\ ValidWindow
    /\ start_idx > 0
    /\ FirstMaxIdx > start_idx
    /\ \E k \in WindowIdx : k > FirstMaxIdx /\ Cur(k) = WindowMax
    /\ result.kind = "value"

\* C2: for every valid window, the ratio get_SNR returns is the maximum of
\* the caller's window I[start_idx:end_idx] over the RMS noise of the
\* two-sided baseline I[:start_idx] ++ I[end_idx:].
C2_SNRUsesCallerWindow ==
    (op = "get_SNR" /\ ValidWindow /\ result.kind = "value"
        /\ result.special = "none") =>
        result.val = <<WindowMax>> \o BaselineRmsSquared

\* C3: a windowed operation called with start_idx or end_idx outside [0, N]
\* ends in a failure surfaced to the caller: it returns no value computed
\* from a clamped or wrapped window.
C3_OutOfRangeWindowRaises ==
    (op \in WindowedOps /\ ~(start_idx \in 0..N /\ end_idx \in 0..N)) =>
        result.kind # "value"

\* C4: in get_peak_FWHM, when at least 2 samples are >= threshold and the
\* last sample of the signal is one of them (right_idx = N), the read of
\* E[right_idx] is guarded: no IndexError escapes from it.
C4_FWHMRightEdgeGuarded ==
    (op = "get_peak_FWHM" /\ ValidWindow
        /\ Cardinality(AboveThreshold) >= 2 /\ (N - 1) \in AboveThreshold) =>
        ~(result.kind = "IndexError" /\ result.line = 54)

\* C5: in get_left_slope and get_right_slope, when no sample of the searched
\* sub-range is >= Ith the call reports a failure of its own, and not the
\* IndexError of indexing the empty result of the search.
C5_EmptySearchReported ==
    /\ (op = "get_left_slope" /\ ValidWindow /\ LeftHits = {}) =>
           (result.kind \notin {"value", "none"}
               /\ ~(result.kind = "IndexError" /\ result.line = 111))
    /\ (op = "get_right_slope" /\ ValidWindow /\ RightHits = {}) =>
           (result.kind \notin {"value", "none"}
               /\ ~(result.kind = "IndexError" /\ result.line = 161))

\* C6: when the two-sided baseline has zero RMS noise, get_SNR never returns
\* the quotient by zero as an ordinary float (inf, -inf or nan).
C6_ZeroNoiseReported ==
    (op = "get_SNR" /\ ValidWindow /\ FlatBaseline) =>
        ~(result.kind = "value" /\ result.special # "none")

\* C7 as stated: on a signal with a unique maximum, get_peak_FWHM with
\* threshold_ratio = 1.0 returns 0.0 for every valid window.
C7_FullRatioZeroAnyWindow ==
    (op = "get_peak_FWHM" /\ threshold_ratio = FullMaximum /\ ValidWindow
        /\ UniqueMaximum) =>
        (result.kind = "value" /\ result.val = <<0>>)

\* C7 amended: on a signal with a unique maximum, get_peak_FWHM with
\* threshold_ratio = 1.0 returns 0.0 for every valid window that contains
\* the maximum of the signal.
C7_FullRatioZeroPeakInWindow ==
    (op = "get_peak_FWHM" /\ threshold_ratio = FullMaximum /\ ValidWindow
        /\ UniqueMaximum /\ WindowMax = GlobalMax) =>
        (result.kind = "value" /\ result.val = <<0>>)

\* C7 witness: a negative unique maximum inside a window that leaves out
\* part of the signal.
C7_Witness ==
    /\ op = "get_peak_FWHM"
    /\ threshold_ratio = FullMaximum
    /\ ValidWindow
    /\ UniqueMaximum
    /\ WindowMax = GlobalMax
    /\ GlobalMax < 0
    /\ end_idx - start_idx < N
    /\ result.val = <<0>>

\* C8: two 'not well-defined' outcomes (a diagnostic is printed and a value
\* returned), one after the other, are the same value of the same shape.
C8_UniformSentinel ==
    [][(result.diag # "none" /\ result'.diag # "none") =>
           (result'.shape = result.shape /\ result'.val = result.val)]_vars

\* C9: for every valid window in which some sample of I[start_idx:peak_idx]
\* is >= Ith, get_left_slope fits exactly the samples of
\* [idx_threshold, peak_idx), idx_threshold being the lowest index of
\* [start_idx, peak_idx) whose current is >= Ith, and it returns the
\* degenerate pair exactly when peak_idx - idx_threshold < 2.
C9_LeftSlopeRange ==
    (op = "get_left_slope" /\ ValidWindow /\ LeftHits # {}) =>
        /\ frame.peak_idx = <<FirstMaxIdx>>
        /\ frame.idx_threshold = <<LeftThreshold>>
        /\ start_idx <= frame.idx_threshold[1]
        /\ frame.idx_threshold[1] < frame.peak_idx[1]
        /\ frame.I_fit = Samples(I, LeftThreshold, FirstMaxIdx)
        /\ frame.E_fit = Samples(E, LeftThreshold, FirstMaxIdx)
        /\ result.kind = "value"
        /\ (result.diag = "left_slope_warning") <=>
               (FirstMaxIdx - LeftThreshold < 2)
        /\ (result.shape = "ndarray") <=> (FirstMaxIdx - LeftThreshold >= 2)

\* C9 witness: a window whose first sample is below Ith and is skipped,
\* and two or more samples fitted before the peak.
C9_Witness ==
    /\ op = "get_left_slope"
    /\ ValidWindow
    /\ LeftHits # {}
    /\ LeftThreshold > start_idx
    /\ FirstMaxIdx - LeftThreshold >= 2
    /\ result.shape = "ndarray"

\* C10: in get_right_slope, for every valid window whose peak current is
\* >= 0 the threshold search over I[peak_idx:end_idx] is not empty, and
\* peak_idx <= idx_threshold < end_idx, the fitted range being
\* [peak_idx, idx_threshold); when the peak current is negative the search
\* is empty.
C10_RightSlopeRange ==
    (op = "get_right_slope" /\ ValidWindow) =>
        /\ frame.peak_idx = <<FirstMaxIdx>>
        /\ (WindowMax >= 0) =>
               /\ frame.hits # << >>
               /\ frame.idx_threshold = <<RightThreshold>>
               /\ frame.peak_idx[1] <= frame.idx_threshold[1]
               /\ frame.idx_threshold[1] < end_idx
               /\ frame.I_fit = Samples(I, FirstMaxIdx, RightThreshold)
               /\ frame.E_fit = Samples(E, FirstMaxIdx, RightThreshold)
               /\ result.kind = "value"
        /\ (WindowMax < 0) => (frame.hits = << >> /\ RightHits = {})

\* C10 witness: a non-negative peak followed by a sample below Ith and then
\* by a sample above it, the last of which is left out of the fit.
C10_Witness ==
    /\ op = "get_right_slope"
    /\ ValidWindow
    /\ WindowMax >= 0
    /\ \E k \in FirstMaxIdx..(end_idx - 1) : k \notin RightHits
    /\ RightThreshold - FirstMaxIdx >= 2
    /\ RightThreshold < end_idx - 1
    /\ result.shape = "ndarray"

====
